---- MODULE Spec2Model ----
(***************************************************************************)
(* Tile server of the Optimal-Stargazing-Locator: the read-through tile    *)
(* cache of src/tile_server/tile_server.py.                                 *)
(*                                                                          *)
(* State: the local cache directory (files with their bytes and mtime, and  *)
(* the directories created for them), the remote object store, the wall     *)
(* clock, every request handler's position and locals, and the position of  *)
(* the cache-cleanup thread.  One action per filesystem or object-store     *)
(* operation of a handler, so that the cleanup thread (a real thread) can   *)
(* run between any two of them.                                             *)
(*                                                                          *)
(* Scheduling.  The handlers are `async def` coroutines that never suspend  *)
(* before they return (every call they make is a blocking one), so under    *)
(* the single event loop that __main__ starts (uvicorn.run(app), line 259)  *)
(* a handler runs from its first line to its return before another handler  *)
(* starts: that is Spec.  SpecWorkers is the module served by several        *)
(* workers over one cache directory: handlers run in parallel (the          *)
(* scheduling the design document allows) and no cleanup thread runs; it is *)
(* used for the claims about concurrent requests.  SpecIO is Spec with local*)
(* filesystem faults.  SpecKeys applies the key derivation of both          *)
(* handlers to a wide set of requests.                                      *)
(***************************************************************************)
EXTENDS Integers, Sequences, FiniteSets, TLC

\* ------------------------------------------------------------------ bounds
\* Number of handler frames that may be live at once.
NumWorkers == 2
\* Number of times the wall clock advances in a behaviour.
MaxTicks == 2
\* Versions a remote object may go through (0 is "no such object").
MaxVersions == 2
\* Number of local filesystem calls that fail in a behaviour.
MaxFaults == 1
\* Largest zoom level of the requests drawn for the key derivation.
MaxZoom == 3
\* Zoom levels of the rows given to slippy_y_from_tms on its own.
MaxRowZoom == 5
\* Hours of wall-clock time in the runs where time is kept with the sweeps.
MaxHours == 14

\* --------------------------------------------------------------- constants
BUCKET == "optimal-stargazing-locator"

LayerNames ==
  {"SkyCover_Tiles", "PrecipProb_Tiles", "Temp_Tiles", "Stargazing_Tiles",
   "LightPollution_Tiles"}

LAYER_PATHS ==
  [l \in LayerNames |->
     CASE l = "SkyCover_Tiles"       -> "data-layer-tiles/SkyCover_Tiles"
       [] l = "PrecipProb_Tiles"     -> "data-layer-tiles/PrecipProb_Tiles"
       [] l = "Temp_Tiles"           -> "data-layer-tiles/Temp_Tiles"
       [] l = "Stargazing_Tiles"     -> "data-layer-tiles/Stargazing_Tiles"
       [] l = "LightPollution_Tiles" -> "light-pollution-data/zenith_ConUSA_colored_tiles"]

blank_tile_key == "data-layer-tiles/blank_tile_256x256.png"

CACHE_DIR == "tile_cache"

HOUR == 3600

CACHE_EXPIRY_SECONDS == 12 * HOUR

\* time.sleep(3600) of the cleanup loop
SLEEP_SECONDS == 3600

\* ------------------------------------------------------------ pure helpers
\* str.lstrip('/')
RECURSIVE lstrip(_)
lstrip(s) ==
  IF Len(s) > 0 /\ SubSeq(s, 1, 1) = "/" THEN lstrip(SubSeq(s, 2, Len(s))) ELSE s

s3key(key) == BUCKET \o "/" \o lstrip(key)

\* slippy_y_from_tms without the "- 1".
slippy_y_from_tms_NoMinusOne(z, y) == (2 ^ z) - y

slippy_y_from_tms(z, y) == (2 ^ z) - 1 - y

\* pathlib's "/" on relative segments, and f"{n}" / str(n) on integers
Join(a, b) == a \o "/" \o b

str(n) == ToString(n)

\* head_tile_with_timestamp, lines 122-123
HeadLocalPath(r) ==
  LET slippy_y == slippy_y_from_tms(r.z, r.y)
  IN  Join(Join(Join(Join(Join(CACHE_DIR, r.layer), r.timestamp), str(r.z)),
                str(r.x)), str(slippy_y) \o ".png")

\* head_tile_with_timestamp, lines 128-132
HeadKey(r) ==
  LET slippy_y == slippy_y_from_tms(r.z, r.y)
  IN  IF r.layer = "LightPollution_Tiles" /\ r.timestamp = "static"
      THEN LAYER_PATHS[r.layer] \o "/" \o str(r.z) \o "/" \o str(r.x) \o "/"
             \o str(slippy_y) \o ".png"
      ELSE LAYER_PATHS[r.layer] \o "/" \o r.timestamp \o "/" \o str(r.z) \o "/"
             \o str(r.x) \o "/" \o str(slippy_y) \o ".png"

\* get_tile_with_timestamp, lines 147 and 154
GetLocalPath(r) ==
  LET slippy_y == slippy_y_from_tms(r.z, r.y)
  IN  Join(Join(Join(Join(Join(CACHE_DIR, r.layer), r.timestamp), str(r.z)),
                str(r.x)), str(slippy_y) \o ".png")

\* local_path.parent, line 155
GetParent(r) ==
  Join(Join(Join(Join(CACHE_DIR, r.layer), r.timestamp), str(r.z)), str(r.x))

\* GetKey with the timestamp segment left out for "static" whatever the layer.
GetKey_StaticAnyLayer(r) ==
  LET slippy_y == slippy_y_from_tms(r.z, r.y)
  IN  IF r.timestamp = "static"
      THEN LAYER_PATHS[r.layer] \o "/" \o str(r.z) \o "/" \o str(r.x) \o "/"
             \o str(slippy_y) \o ".png"
      ELSE LAYER_PATHS[r.layer] \o "/" \o r.timestamp \o "/" \o str(r.z) \o "/"
             \o str(r.x) \o "/" \o str(slippy_y) \o ".png"

\* get_tile_with_timestamp, lines 159-163
GetKey(r) ==
  LET slippy_y == slippy_y_from_tms(r.z, r.y)
  IN  IF r.layer = "LightPollution_Tiles" /\ r.timestamp = "static"
      THEN LAYER_PATHS[r.layer] \o "/" \o str(r.z) \o "/" \o str(r.x) \o "/"
             \o str(slippy_y) \o ".png"
      ELSE LAYER_PATHS[r.layer] \o "/" \o r.timestamp \o "/" \o str(r.z) \o "/"
             \o str(r.x) \o "/" \o str(slippy_y) \o ".png"

\* serve_blank_tile, line 98
blank_tile_path == Join(CACHE_DIR, "blank_tile.png")

\* ------------------------------------------------------- request universe
Methods == {"GET", "HEAD"}

\* The requests the handlers are driven with: a timestamped layer, the static
\* layer through the static routes (lines 172-178 pass timestamp "static"),
\* and a layer that is not registered.
TileRequests ==
  { [layer |-> "SkyCover_Tiles", timestamp |-> "2025062818", z |-> 3, x |-> 2, y |-> 5],
    [layer |-> "LightPollution_Tiles", timestamp |-> "static", z |-> 3, x |-> 2, y |-> 5] }
  \cup [layer : {"unknown_layer"}, timestamp : {"2025062818", "static"},
        z : {0, 3}, x : {0, 2}, y : {0, 5}]

ValidRequests == {r \in TileRequests : r.layer \in LayerNames}

NoRequest == [layer |-> "", timestamp |-> "", z |-> 0, x |-> 0, y |-> 0]

\* Every file the cache directory can hold for these requests.
LocalPaths == {GetLocalPath(r) : r \in ValidRequests} \cup {blank_tile_path}

ParentDirs == {GetParent(r) : r \in ValidRequests}

\* Every object of the bucket the handlers can ask for.
RemoteKeys == {s3key(GetKey(r)) : r \in ValidRequests} \cup {s3key(blank_tile_key)}

Workers == 1 .. NumWorkers

\* ------------------------------------------------------------------ values
\* File contents: the bytes of version v of remote object k, or a file that
\* was opened for writing and not (yet) filled.
Bytes(k, v) == <<k, v>>

Truncated == <<"", 0>>

NoFile == [present |-> FALSE, data |-> Truncated, mtime |-> 0]

File(d, t) == [present |-> TRUE, data |-> d, mtime |-> t]

\* Responses.  raised names the exception that left the handler ("" when it
\* returned); the server then answers 500 (its error middleware).
NoBytes == <<"", -1>>

NoResponse == [type |-> "", status |-> 0, body |-> NoBytes, raised |-> ""]

\* Response(status_code=..., content=...): a short text or empty body
Response(status, text) ==
  [type |-> "Response", status |-> status, body |-> <<text, 1>>, raised |-> ""]

\* StreamingResponse(open(path, "rb"), ...): status 200, the file's bytes
StreamingResponse(body) ==
  [type |-> "StreamingResponse", status |-> 200, body |-> body, raised |-> ""]

Raised(exc) == [type |-> "", status |-> 500, body |-> NoBytes, raised |-> exc]

NoLocals == [local_path |-> "", key |-> "", hit |-> FALSE, data |-> NoBytes]

\* `await v`: only a coroutine (or another awaitable) can be awaited; any other
\* object raises TypeError after v has been evaluated.
Await(v) == IF v.type = "coroutine" THEN v.result ELSE Raised("TypeError")

\* ---------------------------------------------------------------- variables
VARIABLES
  clock,    \* time.time(), seconds
  ticks,    \* how often the clock has advanced
  faults,   \* how many local filesystem calls have failed
  tile,     \* the tile the clients of this run ask for
  fs,       \* the cache directory: path -> file
  dirs,     \* the directories created under the cache directory
  pc,       \* per handler frame: where it is
  method,   \* per handler frame: GET or HEAD
  req,      \* per handler frame: the path parameters
  loc,      \* per handler frame: local_path, key, bytes in transit
  ret,      \* per handler frame: what serve_blank_tile returned
  resp,     \* per handler frame: what the handler returned or raised
  calls,    \* per handler frame: its calls to the object store and their
            \*                    answers, in order
  jpc,      \* cleanup thread: "sleep" or "scan"
  jnow,     \* cleanup thread: its `now`
  jlist,    \* cleanup thread: entries of the listing not yet visited
  jcur,     \* cleanup thread: the entry it is about to unlink ("" if none)
  jwake,    \* cleanup thread: when its sleep ends
  served,   \* history: path -> bytes last answered from a remote fetch and
            \*          still on disk since (NoBytes if none)
  prior,    \* history: per frame, served[its path] when the request began
  kin,      \* key derivation: the request
  kout,     \* key derivation: what the handlers derived
  rin,      \* row flip: the zoom and the row given
  rout      \* row flip: the results of flipping, in order

vars ==
  <<clock, ticks, faults, tile, fs, dirs, pc, method, req, loc, ret, resp, calls,
    jpc, jnow, jlist, jcur, jwake, served, prior, kin, kout, rin, rout>>

envVars == <<clock, ticks, faults, tile>>

janitorVars == <<jpc, jnow, jlist, jcur, jwake>>

keyVars == <<kin, kout, rin, rout>>

NoKeys == [key |-> "", path |-> ""]

NoRow == [z |-> 0, y |-> 0]

\* What a previous run of the server can have left at a path: nothing, or a
\* complete file, written before this run started (time is counted from the
\* start).  A tile's path holds the bytes of its object or, after a fallback,
\* the blank tile's.
BlankBytes == Bytes(s3key(blank_tile_key), 1)

LeftAt(p, r) ==
  {NoFile} \cup
  (IF p = blank_tile_path THEN {File(BlankBytes, 0)}
   ELSE IF p = GetLocalPath(r) THEN {File(Bytes(s3key(GetKey(r)), 1), 0), File(BlankBytes, 0)}
   ELSE {})

\* The state when the server starts: CACHE_DIR exists (line 82; exist_ok, so
\* with whatever a previous run left in it), no handler runs, the cleanup
\* thread is about to make its first sweep.
InitServer ==
  /\ clock = 0
  /\ ticks = 0
  /\ faults = 0
  /\ tile \in ValidRequests
  /\ fs \in [LocalPaths -> {NoFile, File(BlankBytes, 0)}
                           \cup {File(Bytes(s3key(GetKey(r)), 1), 0) : r \in ValidRequests}]
  /\ \A p \in LocalPaths : fs[p] \in LeftAt(p, tile)
  /\ dirs = {GetParent(r) : r \in {q \in ValidRequests : fs[GetLocalPath(q)].present}}
  /\ pc = [w \in Workers |-> "idle"]
  /\ method = [w \in Workers |-> ""]
  /\ req = [w \in Workers |-> NoRequest]
  /\ loc = [w \in Workers |-> NoLocals]
  /\ ret = [w \in Workers |-> NoResponse]
  /\ resp = [w \in Workers |-> NoResponse]
  /\ calls = [w \in Workers |-> <<>>]
  /\ jpc = "sleep"
  /\ jnow = 0
  /\ jlist = {}
  /\ jcur = ""
  /\ jwake = clock
  /\ served = [p \in LocalPaths |-> NoBytes]
  /\ prior = [w \in Workers |-> NoBytes]

Init ==
  /\ InitServer
  /\ kin = NoRequest
  /\ kout = [head |-> NoKeys, get |-> NoKeys]
  /\ rin = NoRow
  /\ rout = <<>>

\* ------------------------------------------------------------ environment
\* Time passes: by the cleanup loop's period, or by the retention period.
TickSteps == {HOUR, CACHE_EXPIRY_SECONDS}

Tick(d) ==
  /\ ticks < MaxTicks
  /\ clock' = clock + d
  /\ ticks' = ticks + 1
  /\ UNCHANGED <<faults, tile, fs, dirs, pc, method, req, loc, ret, resp, calls,
                 janitorVars, served, prior, keyVars>>

\* What a call to the object store can give: the bucket is not this
\* program's state, and its owner may publish, replace or remove any object
\* between two calls.  A negative result is a fault (network, timeout,
\* credentials): the call raises; 0 says there is no such object; v > 0 is the
\* version there.
RemoteResults == (-1) .. MaxVersions

IsFault(res) == res < 0

\* The blank tile is published once and never replaced.
BlankResults == (-1) .. 1

\* fs.get(rpath, lpath) raises unless the object is there
Fetched(res) == ~IsFault(res) /\ res > 0

\* ------------------------------------------------------- handlers: entering
\* Enter with the parent directory made before the layer is checked.
Enter_MkdirBeforeCheck(w, m, r) ==
  /\ pc[w] = "idle"
  /\ r.layer \in DOMAIN LAYER_PATHS => r = tile
  /\ method' = [method EXCEPT ![w] = m]
  /\ req' = [req EXCEPT ![w] = r]
  /\ calls' = [calls EXCEPT ![w] = <<>>]
  /\ ret' = [ret EXCEPT ![w] = NoResponse]
  /\ dirs' = IF m = "GET" THEN dirs \cup {GetParent(r)} ELSE dirs
  /\ IF r.layer \notin DOMAIN LAYER_PATHS
     THEN /\ resp' = [resp EXCEPT ![w] = Response(404, "Layer not found")]
          /\ pc' = [pc EXCEPT ![w] = "done"]
          /\ loc' = [loc EXCEPT ![w] = NoLocals]
          /\ prior' = [prior EXCEPT ![w] = NoBytes]
     ELSE /\ resp' = [resp EXCEPT ![w] = NoResponse]
          /\ pc' = [pc EXCEPT ![w] = IF m = "GET" THEN "g_mkdir" ELSE "h_exists"]
          /\ loc' = [loc EXCEPT ![w] =
                       [NoLocals EXCEPT !.local_path =
                          IF m = "GET" THEN GetLocalPath(r) ELSE HeadLocalPath(r)]]
          /\ prior' = [prior EXCEPT ![w] =
                         IF m = "GET" THEN served[GetLocalPath(r)] ELSE NoBytes]
  /\ UNCHANGED <<envVars, fs, janitorVars, served, keyVars>>

\* Lines 118-123 (HEAD) and 143-154 (GET) up to the first filesystem call: the
\* layer check, then slippy_y and local_path.
Enter(w, m, r) ==
  /\ pc[w] = "idle"
  /\ r.layer \in DOMAIN LAYER_PATHS => r = tile
  /\ method' = [method EXCEPT ![w] = m]
  /\ req' = [req EXCEPT ![w] = r]
  /\ calls' = [calls EXCEPT ![w] = <<>>]
  /\ ret' = [ret EXCEPT ![w] = NoResponse]
  /\ IF r.layer \notin DOMAIN LAYER_PATHS
     THEN /\ resp' = [resp EXCEPT ![w] = Response(404, "Layer not found")]
          /\ pc' = [pc EXCEPT ![w] = "done"]
          /\ loc' = [loc EXCEPT ![w] = NoLocals]
          /\ prior' = [prior EXCEPT ![w] = NoBytes]
     ELSE /\ resp' = [resp EXCEPT ![w] = NoResponse]
          /\ pc' = [pc EXCEPT ![w] = IF m = "GET" THEN "g_mkdir" ELSE "h_exists"]
          /\ loc' = [loc EXCEPT ![w] =
                       [NoLocals EXCEPT !.local_path =
                          IF m = "GET" THEN GetLocalPath(r) ELSE HeadLocalPath(r)]]
          /\ prior' = [prior EXCEPT ![w] =
                         IF m = "GET" THEN served[GetLocalPath(r)] ELSE NoBytes]
  /\ UNCHANGED <<envVars, fs, dirs, janitorVars, served, keyVars>>

\* One event loop: a handler is entered only when no other handler is running
\* (so one frame, the first, is all the loop needs).
Start(w, m, r) ==
  /\ \A v \in Workers : pc[v] = "idle" /\ w <= v
  /\ Enter(w, m, r)

\* Parallel workers: a handler is entered whatever the others do.
StartWorker(w, m, r) == Enter(w, m, r)

\* The response has been sent; the frame is gone.
Reply(w) ==
  /\ pc[w] = "done"
  /\ pc' = [pc EXCEPT ![w] = "idle"]
  /\ method' = [method EXCEPT ![w] = ""]
  /\ req' = [req EXCEPT ![w] = NoRequest]
  /\ loc' = [loc EXCEPT ![w] = NoLocals]
  /\ ret' = [ret EXCEPT ![w] = NoResponse]
  /\ resp' = [resp EXCEPT ![w] = NoResponse]
  /\ calls' = [calls EXCEPT ![w] = <<>>]
  /\ prior' = [prior EXCEPT ![w] = NoBytes]
  /\ UNCHANGED <<envVars, fs, dirs, janitorVars, served, keyVars>>

\* ------------------------------------------------------------ HEAD handler
\* HeadExists without the look into the cache.
HeadExists_AlwaysMiss(w) ==
  /\ pc[w] = "h_exists"
  /\ loc' = [loc EXCEPT ![w].key = HeadKey(req[w])]
  /\ pc' = [pc EXCEPT ![w] = "h_remote"]
  /\ UNCHANGED <<envVars, fs, dirs, method, req, ret, resp, calls, janitorVars,
                 served, prior, keyVars>>

\* Lines 124-132: local_path.exists(); on a miss, the key.
HeadExists(w) ==
  /\ pc[w] = "h_exists"
  /\ IF fs[loc[w].local_path].present
     THEN /\ resp' = [resp EXCEPT ![w] = Response(200, "")]
          /\ pc' = [pc EXCEPT ![w] = "done"]
          /\ loc' = [loc EXCEPT ![w].hit = TRUE]
     ELSE /\ loc' = [loc EXCEPT ![w].key = HeadKey(req[w])]
          /\ pc' = [pc EXCEPT ![w] = "h_remote"]
          /\ UNCHANGED resp
  /\ UNCHANGED <<envVars, fs, dirs, method, req, ret, calls, janitorVars,
                 served, prior, keyVars>>

\* HeadRemote that makes the tile's directory in the cache when the object
\* exists.
HeadRemote_MakesDir(w, res) ==
  /\ pc[w] = "h_remote"
  /\ calls' = [calls EXCEPT ![w] = Append(@, [key |-> s3key(loc[w].key), res |-> res])]
  /\ resp' = [resp EXCEPT ![w] =
                IF IsFault(res) THEN Response(404, "")
                ELSE Response(IF res > 0 THEN 200 ELSE 404, "")]
  /\ dirs' = IF res > 0 THEN dirs \cup {GetParent(req[w])} ELSE dirs
  /\ pc' = [pc EXCEPT ![w] = "done"]
  /\ UNCHANGED <<envVars, fs, method, req, loc, ret, janitorVars,
                 served, prior, keyVars>>

\* Lines 133-138: fs.exists(s3key(key)); 200 if it says so, 404 if not or if
\* the call raises.
HeadRemote(w, res) ==
  /\ pc[w] = "h_remote"
  /\ calls' = [calls EXCEPT ![w] = Append(@, [key |-> s3key(loc[w].key), res |-> res])]
  /\ resp' = [resp EXCEPT ![w] =
                IF IsFault(res) THEN Response(404, "")
                ELSE Response(IF res > 0 THEN 200 ELSE 404, "")]
  /\ pc' = [pc EXCEPT ![w] = "done"]
  /\ UNCHANGED <<envVars, fs, dirs, method, req, loc, ret, janitorVars,
                 served, prior, keyVars>>

\* ------------------------------------------------------------- GET handler
\* Line 155: local_path.parent.mkdir(parents=True, exist_ok=True)
GetMkdir(w) ==
  /\ pc[w] = "g_mkdir"
  /\ dirs' = dirs \cup {GetParent(req[w])}
  /\ pc' = [pc EXCEPT ![w] = "g_exists"]
  /\ UNCHANGED <<envVars, fs, method, req, loc, ret, resp, calls, janitorVars,
                 served, prior, keyVars>>

\* GetExists without the look into the cache.
GetExists_AlwaysMiss(w) ==
  /\ pc[w] = "g_exists"
  /\ loc' = [loc EXCEPT ![w].key = GetKey(req[w])]
  /\ pc' = [pc EXCEPT ![w] = "g_fetch"]
  /\ UNCHANGED <<envVars, fs, dirs, method, req, ret, resp, calls, janitorVars,
                 served, prior, keyVars>>

\* Lines 156 and 159-163: local_path.exists(); on a miss, the key.
GetExists(w) ==
  /\ pc[w] = "g_exists"
  /\ IF fs[loc[w].local_path].present
     THEN /\ loc' = [loc EXCEPT ![w].hit = TRUE]
          /\ pc' = [pc EXCEPT ![w] = "g_open_hit"]
     ELSE /\ loc' = [loc EXCEPT ![w].key = GetKey(req[w])]
          /\ pc' = [pc EXCEPT ![w] = "g_fetch"]
  /\ UNCHANGED <<envVars, fs, dirs, method, req, ret, resp, calls, janitorVars,
                 served, prior, keyVars>>

\* Line 157: return StreamingResponse(open(local_path, "rb"), headers=headers).
\* The open is outside every try: if the file is gone, FileNotFoundError leaves
\* the handler.
GetOpenHit(w) ==
  /\ pc[w] = "g_open_hit"
  /\ resp' = [resp EXCEPT ![w] =
                IF fs[loc[w].local_path].present
                THEN StreamingResponse(fs[loc[w].local_path].data)
                ELSE Raised("FileNotFoundError")]
  /\ pc' = [pc EXCEPT ![w] = "done"]
  /\ UNCHANGED <<envVars, fs, dirs, method, req, loc, ret, calls, janitorVars,
                 served, prior, keyVars>>

\* GetFetch with the local file opened before the bucket is asked.
GetFetch_OpensFirst(w, res) ==
  /\ pc[w] = "g_fetch"
  /\ calls' = [calls EXCEPT ![w] = Append(@, [key |-> s3key(loc[w].key), res |-> res])]
  /\ fs' = [fs EXCEPT ![loc[w].local_path] = File(Truncated, clock)]
  /\ IF Fetched(res)
     THEN /\ loc' = [loc EXCEPT ![w].data = Bytes(s3key(loc[w].key), res)]
          /\ pc' = [pc EXCEPT ![w] = "g_fetch_write"]
     ELSE /\ pc' = [pc EXCEPT ![w] = "b_exists"]
          /\ UNCHANGED loc
  /\ UNCHANGED <<envVars, dirs, method, req, ret, resp, janitorVars,
                 served, prior, keyVars>>

\* Line 165, first half: fs.get asks the bucket for the object; if that
\* raises, control is in the except clause (line 167) and serve_blank_tile is
\* called; otherwise local_path is opened for writing, which creates it empty
\* (or empties it).
GetFetch(w, res) ==
  /\ pc[w] = "g_fetch"
  /\ calls' = [calls EXCEPT ![w] = Append(@, [key |-> s3key(loc[w].key), res |-> res])]
  /\ IF Fetched(res)
     THEN /\ loc' = [loc EXCEPT ![w].data = Bytes(s3key(loc[w].key), res)]
          /\ fs' = [fs EXCEPT ![loc[w].local_path] = File(Truncated, clock)]
          /\ pc' = [pc EXCEPT ![w] = "g_fetch_write"]
     ELSE /\ pc' = [pc EXCEPT ![w] = "b_exists"]
          /\ UNCHANGED <<loc, fs>>
  /\ UNCHANGED <<envVars, dirs, method, req, ret, resp, janitorVars,
                 served, prior, keyVars>>

\* Line 165, second half: the object's bytes are written into the open file.
GetFetchWrite(w) ==
  /\ pc[w] = "g_fetch_write"
  /\ fs' = IF fs[loc[w].local_path].present
           THEN [fs EXCEPT ![loc[w].local_path] = File(loc[w].data, clock)]
           ELSE fs
  /\ pc' = [pc EXCEPT ![w] = "g_open_new"]
  /\ UNCHANGED <<envVars, dirs, method, req, loc, ret, resp, calls, janitorVars,
                 served, prior, keyVars>>

\* Line 166: return StreamingResponse(open(local_path, "rb"), headers=headers),
\* inside the try: a failing open goes to the except clause too.
GetOpenNew(w) ==
  /\ pc[w] = "g_open_new"
  /\ IF fs[loc[w].local_path].present
     THEN /\ resp' = [resp EXCEPT ![w] = StreamingResponse(fs[loc[w].local_path].data)]
          /\ served' = [served EXCEPT ![loc[w].local_path] = fs[loc[w].local_path].data]
          /\ pc' = [pc EXCEPT ![w] = "done"]
     ELSE /\ pc' = [pc EXCEPT ![w] = "b_exists"]
          /\ UNCHANGED <<resp, served>>
  /\ UNCHANGED <<envVars, fs, dirs, method, req, loc, ret, calls, janitorVars,
                 prior, keyVars>>

\* ------------------------------------------------------- serve_blank_tile
\* Line 99: blank_tile_path.exists()
BlankExists(w) ==
  /\ pc[w] = "b_exists"
  /\ pc' = [pc EXCEPT ![w] = IF fs[blank_tile_path].present THEN "b_read" ELSE "b_fetch"]
  /\ UNCHANGED <<envVars, fs, dirs, method, req, loc, ret, resp, calls,
                 janitorVars, served, prior, keyVars>>

\* Lines 100-105, first half: fs.get asks the bucket for the blank tile; if
\* that raises, serve_blank_tile returns Response(status_code=500, ...);
\* otherwise blank_tile_path is opened for writing.
BlankFetch(w, res) ==
  /\ pc[w] = "b_fetch"
  /\ calls' = [calls EXCEPT ![w] = Append(@, [key |-> s3key(blank_tile_key), res |-> res])]
  /\ IF Fetched(res)
     THEN /\ loc' = [loc EXCEPT ![w].data = Bytes(s3key(blank_tile_key), res)]
          /\ fs' = [fs EXCEPT ![blank_tile_path] = File(Truncated, clock)]
          /\ pc' = [pc EXCEPT ![w] = "b_fetch_write"]
          /\ UNCHANGED ret
     ELSE /\ ret' = [ret EXCEPT ![w] = Response(500, "Tile and fallback missing")]
          /\ pc' = [pc EXCEPT ![w] = "g_await"]
          /\ UNCHANGED <<loc, fs>>
  /\ UNCHANGED <<envVars, dirs, method, req, resp, janitorVars,
                 served, prior, keyVars>>

\* Line 101, second half: the blank tile's bytes are written into the open file.
BlankFetchWrite(w) ==
  /\ pc[w] = "b_fetch_write"
  /\ fs' = IF fs[blank_tile_path].present
           THEN [fs EXCEPT ![blank_tile_path] = File(loc[w].data, clock)]
           ELSE fs
  /\ pc' = [pc EXCEPT ![w] = "b_read"]
  /\ UNCHANGED <<envVars, dirs, method, req, loc, ret, resp, calls, janitorVars,
                 served, prior, keyVars>>

\* Lines 106-108, up to the argument of write_bytes: the parent directory, then
\* blank_tile_path.read_bytes(); if that raises, `except Exception: pass`.
BlankRead(w) ==
  /\ pc[w] = "b_read"
  /\ dirs' = dirs \cup {GetParent(req[w])}
  /\ IF fs[blank_tile_path].present
     THEN /\ loc' = [loc EXCEPT ![w].data = fs[blank_tile_path].data]
          /\ pc' = [pc EXCEPT ![w] = "b_copy_open"]
     ELSE /\ pc' = [pc EXCEPT ![w] = "b_open"]
          /\ UNCHANGED loc
  /\ UNCHANGED <<envVars, fs, method, req, ret, resp, calls, janitorVars,
                 served, prior, keyVars>>

\* Line 108, cache_path.write_bytes(...): the file is opened for writing, which
\* creates it empty or empties the file that is there ...
BlankCopyOpen(w) ==
  /\ pc[w] = "b_copy_open"
  /\ fs' = [fs EXCEPT ![loc[w].local_path] = File(Truncated, clock)]
  /\ pc' = [pc EXCEPT ![w] = "b_copy_write"]
  /\ UNCHANGED <<envVars, dirs, method, req, loc, ret, resp, calls, janitorVars,
                 served, prior, keyVars>>

\* ... and then filled with the blank tile's bytes.
BlankCopyWrite(w) ==
  /\ pc[w] = "b_copy_write"
  /\ fs' = IF fs[loc[w].local_path].present
           THEN [fs EXCEPT ![loc[w].local_path] = File(loc[w].data, clock)]
           ELSE fs
  /\ pc' = [pc EXCEPT ![w] = "b_open"]
  /\ UNCHANGED <<envVars, dirs, method, req, loc, ret, resp, calls, janitorVars,
                 served, prior, keyVars>>

\* Line 111: return StreamingResponse(open(blank_tile_path, "rb"), ...), outside
\* the try: if the file is gone, FileNotFoundError leaves serve_blank_tile and,
\* raised inside the handler's except clause, the handler.
BlankOpen(w) ==
  /\ pc[w] = "b_open"
  /\ IF fs[blank_tile_path].present
     THEN /\ ret' = [ret EXCEPT ![w] = StreamingResponse(fs[blank_tile_path].data)]
          /\ pc' = [pc EXCEPT ![w] = "g_await"]
          /\ UNCHANGED resp
     ELSE /\ resp' = [resp EXCEPT ![w] = Raised("FileNotFoundError")]
          /\ pc' = [pc EXCEPT ![w] = "done"]
          /\ UNCHANGED ret
  /\ UNCHANGED <<envVars, fs, dirs, method, req, loc, calls, janitorVars,
                 served, prior, keyVars>>

\* Line 169: return await serve_blank_tile(local_path).  serve_blank_tile is a
\* plain function (line 95): what it returned is a Response object, and that
\* is what is awaited.
GetAwait(w) ==
  /\ pc[w] = "g_await"
  /\ resp' = [resp EXCEPT ![w] = Await(ret[w])]
  /\ pc' = [pc EXCEPT ![w] = "done"]
  /\ UNCHANGED <<envVars, fs, dirs, method, req, loc, ret, calls, janitorVars,
                 served, prior, keyVars>>

\* ----------------------------------------------------------- cleanup thread
\* Expired with >= for >.
Expired_AtLeast(now, mtime) == now - mtime >= CACHE_EXPIRY_SECONDS

\* Line 246: now - tile.stat().st_mtime > CACHE_EXPIRY_SECONDS
Expired(now, mtime) == now - mtime > CACHE_EXPIRY_SECONDS

\* Lines 240-244: the sleep is over; now = time.time(), and CACHE_DIR.rglob
\* lists every *.png under the cache directory, the blank tile included.
JanitorWake ==
  /\ jpc = "sleep"
  /\ clock >= jwake
  /\ jpc' = "scan"
  /\ jnow' = clock
  /\ jlist' = {p \in LocalPaths : fs[p].present}
  /\ UNCHANGED <<envVars, fs, dirs, pc, method, req, loc, ret, resp, calls,
                 jcur, jwake, served, prior, keyVars>>

\* Lines 245-246: the next entry of the listing; stat() and the age test.  A
\* stat() that raises (the file is gone) is logged and the entry skipped.
JanitorStat(p) ==
  /\ jpc = "scan"
  /\ jcur = ""
  /\ p \in jlist
  /\ jlist' = jlist \ {p}
  /\ jcur' = IF fs[p].present /\ Expired(jnow, fs[p].mtime) THEN p ELSE ""
  /\ UNCHANGED <<envVars, fs, dirs, pc, method, req, loc, ret, resp, calls,
                 jpc, jnow, jwake, served, prior, keyVars>>

\* JanitorUnlink that counts the entry and leaves the file.
JanitorUnlink_KeepsFile ==
  /\ jpc = "scan"
  /\ jcur # ""
  /\ jcur' = ""
  /\ UNCHANGED <<envVars, fs, dirs, pc, method, req, loc, ret, resp, calls,
                 jpc, jnow, jlist, jwake, served, prior, keyVars>>

\* Line 247: tile.unlink().  An unlink that raises is logged and skipped.
JanitorUnlink ==
  /\ jpc = "scan"
  /\ jcur # ""
  /\ fs' = [fs EXCEPT ![jcur] = NoFile]
  /\ served' = [served EXCEPT ![jcur] = NoBytes]
  /\ prior' = [w \in Workers |->
                 IF loc[w].local_path = jcur THEN NoBytes ELSE prior[w]]
  /\ jcur' = ""
  /\ UNCHANGED <<envVars, dirs, pc, method, req, loc, ret, resp, calls,
                 jpc, jnow, jlist, jwake, keyVars>>

\* JanitorSleep with a sleep of two hours.
JanitorSleep_TwoHours ==
  /\ jpc = "scan"
  /\ jcur = ""
  /\ jlist = {}
  /\ jpc' = "sleep"
  /\ jwake' = clock + 2 * SLEEP_SECONDS
  /\ UNCHANGED <<envVars, fs, dirs, pc, method, req, loc, ret, resp, calls,
                 jnow, jlist, jcur, served, prior, keyVars>>

\* Lines 251-252: the listing is exhausted; time.sleep(3600).
JanitorSleep ==
  /\ jpc = "scan"
  /\ jcur = ""
  /\ jlist = {}
  /\ jpc' = "sleep"
  /\ jwake' = clock + SLEEP_SECONDS
  /\ UNCHANGED <<envVars, fs, dirs, pc, method, req, loc, ret, resp, calls,
                 jnow, jlist, jcur, served, prior, keyVars>>

\* ---------------------------------------------------- local filesystem faults
\* A call on the local filesystem raises OSError (permissions, a full disk, an
\* I/O error).  Each action below is the same line as the action it is named
\* after, raising instead.
Fault ==
  /\ faults < MaxFaults
  /\ faults' = faults + 1

\* Line 155, outside every try: the exception leaves the handler.
GetMkdirFault(w) ==
  /\ Fault
  /\ pc[w] = "g_mkdir"
  /\ resp' = [resp EXCEPT ![w] = Raised("OSError")]
  /\ pc' = [pc EXCEPT ![w] = "done"]
  /\ UNCHANGED <<clock, ticks, tile, fs, dirs, method, req, loc, ret, calls, janitorVars,
                 served, prior, keyVars>>

\* Line 157, outside every try: the exception leaves the handler.
GetOpenHitFault(w) ==
  /\ Fault
  /\ pc[w] = "g_open_hit"
  /\ resp' = [resp EXCEPT ![w] = Raised("OSError")]
  /\ pc' = [pc EXCEPT ![w] = "done"]
  /\ UNCHANGED <<clock, ticks, tile, fs, dirs, method, req, loc, ret, calls, janitorVars,
                 served, prior, keyVars>>

\* Line 165: writing the download fails; the file stays as the open left it,
\* and control is in the except clause (line 167).
GetFetchWriteFault(w) ==
  /\ Fault
  /\ pc[w] = "g_fetch_write"
  /\ pc' = [pc EXCEPT ![w] = "b_exists"]
  /\ UNCHANGED <<clock, ticks, tile, fs, dirs, method, req, loc, ret, resp, calls,
                 janitorVars, served, prior, keyVars>>

\* Line 166, inside the try: control is in the except clause (line 167).
GetOpenNewFault(w) ==
  /\ Fault
  /\ pc[w] = "g_open_new"
  /\ pc' = [pc EXCEPT ![w] = "b_exists"]
  /\ UNCHANGED <<clock, ticks, tile, fs, dirs, method, req, loc, ret, resp, calls,
                 janitorVars, served, prior, keyVars>>

\* Line 101: writing the blank tile fails; lines 103-105 return the 500.
BlankFetchWriteFault(w) ==
  /\ Fault
  /\ pc[w] = "b_fetch_write"
  /\ ret' = [ret EXCEPT ![w] = Response(500, "Tile and fallback missing")]
  /\ pc' = [pc EXCEPT ![w] = "g_await"]
  /\ UNCHANGED <<clock, ticks, tile, fs, dirs, method, req, loc, resp, calls, janitorVars,
                 served, prior, keyVars>>

\* Lines 107-108: mkdir or read_bytes raises; `except Exception: pass`.
BlankReadFault(w) ==
  /\ Fault
  /\ pc[w] = "b_read"
  /\ pc' = [pc EXCEPT ![w] = "b_open"]
  /\ UNCHANGED <<clock, ticks, tile, fs, dirs, method, req, loc, ret, resp, calls,
                 janitorVars, served, prior, keyVars>>

\* Line 108: write_bytes cannot open the file; `except Exception: pass`.
BlankCopyOpenFault(w) ==
  /\ Fault
  /\ pc[w] = "b_copy_open"
  /\ pc' = [pc EXCEPT ![w] = "b_open"]
  /\ UNCHANGED <<clock, ticks, tile, fs, dirs, method, req, loc, ret, resp, calls,
                 janitorVars, served, prior, keyVars>>

\* Line 108: write_bytes opened the file and cannot fill it; the file stays
\* empty; `except Exception: pass`.
BlankCopyWriteFault(w) ==
  /\ Fault
  /\ pc[w] = "b_copy_write"
  /\ pc' = [pc EXCEPT ![w] = "b_open"]
  /\ UNCHANGED <<clock, ticks, tile, fs, dirs, method, req, loc, ret, resp, calls,
                 janitorVars, served, prior, keyVars>>

\* Line 111, outside the try: the exception leaves serve_blank_tile and the
\* handler.
BlankOpenFault(w) ==
  /\ Fault
  /\ pc[w] = "b_open"
  /\ resp' = [resp EXCEPT ![w] = Raised("OSError")]
  /\ pc' = [pc EXCEPT ![w] = "done"]
  /\ UNCHANGED <<clock, ticks, tile, fs, dirs, method, req, loc, ret, calls, janitorVars,
                 served, prior, keyVars>>

\* JanitorStatFault with the try around the whole for loop: the exception ends
\* the sweep.
JanitorStatFault_EndsSweep(p) ==
  /\ Fault
  /\ jpc = "scan"
  /\ jcur = ""
  /\ p \in jlist
  /\ jlist' = {}
  /\ UNCHANGED <<clock, ticks, tile, fs, dirs, pc, method, req, loc, ret, resp, calls,
                 jpc, jnow, jcur, jwake, served, prior, keyVars>>

\* Line 246: stat() raises; lines 249-250 log it, and the loop goes on.
JanitorStatFault(p) ==
  /\ Fault
  /\ jpc = "scan"
  /\ jcur = ""
  /\ p \in jlist
  /\ jlist' = jlist \ {p}
  /\ UNCHANGED <<clock, ticks, tile, fs, dirs, pc, method, req, loc, ret, resp, calls,
                 jpc, jnow, jcur, jwake, served, prior, keyVars>>

\* Line 247: unlink() raises; lines 249-250 log it, and the loop goes on.
JanitorUnlinkFault ==
  /\ Fault
  /\ jpc = "scan"
  /\ jcur # ""
  /\ jcur' = ""
  /\ UNCHANGED <<clock, ticks, tile, fs, dirs, pc, method, req, loc, ret, resp, calls,
                 jpc, jnow, jlist, jwake, served, prior, keyVars>>

\* ------------------------------------------------------------ key derivation
\* Requests over every registered layer, both kinds of timestamp and every
\* tile of every zoom level up to MaxZoom.
KeyTimestamps == {"2025062818", "static"}

KeyRequests ==
  UNION { [layer : LayerNames, timestamp : KeyTimestamps, z : {zz},
           x : 0 .. (2 ^ zz) - 1, y : 0 .. (2 ^ zz) - 1] : zz \in 0 .. MaxZoom }

\* What the HEAD handler derives for a request (lines 122-132).
DeriveHead ==
  /\ kout.head = NoKeys
  /\ kout' = [kout EXCEPT !.head = [key |-> HeadKey(kin), path |-> HeadLocalPath(kin)]]
  /\ UNCHANGED <<envVars, fs, dirs, pc, method, req, loc, ret, resp, calls,
                 janitorVars, served, prior, kin, rin, rout>>

\* What the GET handler derives for the same request (lines 147-163).
DeriveGet ==
  /\ kout.get = NoKeys
  /\ kout' = [kout EXCEPT !.get = [key |-> GetKey(kin), path |-> GetLocalPath(kin)]]
  /\ UNCHANGED <<envVars, fs, dirs, pc, method, req, loc, ret, resp, calls,
                 janitorVars, served, prior, kin, rin, rout>>

InitKeys ==
  /\ InitServer
  /\ kin \in KeyRequests
  /\ kout = [head |-> NoKeys, get |-> NoKeys]
  /\ rin = NoRow
  /\ rout = <<>>

NextKeys == DeriveHead \/ DeriveGet

SpecKeys == InitKeys /\ [][NextKeys]_vars

\* ------------------------------------------------------------------ row flip
\* slippy_y_from_tms on its own: a zoom level and a row, the rows of the level
\* and one row off each end of it; the function is applied to the row and
\* then to its own result.
RowInputs ==
  UNION { [z : {zz}, y : (-1) .. (2 ^ zz)] : zz \in 0 .. MaxRowZoom }

FlipRow ==
  /\ Len(rout) < 2
  /\ rout' = Append(rout, slippy_y_from_tms(rin.z, IF rout = <<>> THEN rin.y
                                                   ELSE rout[Len(rout)]))
  /\ UNCHANGED <<envVars, fs, dirs, pc, method, req, loc, ret, resp, calls,
                 janitorVars, served, prior, kin, kout, rin>>

InitRows ==
  /\ InitServer
  /\ kin = NoRequest
  /\ kout = [head |-> NoKeys, get |-> NoKeys]
  /\ rin \in RowInputs
  /\ rout = <<>>

NextRows == FlipRow

SpecRows == InitRows /\ [][NextRows]_vars

\* ------------------------------------------------------------ specifications
Environment == \E d \in TickSteps : Tick(d)

Handler(w) ==
  \/ Reply(w)
  \/ HeadExists(w)
  \/ \E res \in RemoteResults : HeadRemote(w, res)
  \/ GetMkdir(w)
  \/ GetExists(w)
  \/ GetOpenHit(w)
  \/ \E res \in RemoteResults : GetFetch(w, res)
  \/ GetFetchWrite(w)
  \/ GetOpenNew(w)
  \/ BlankExists(w)
  \/ \E res \in BlankResults : BlankFetch(w, res)
  \/ BlankFetchWrite(w)
  \/ BlankRead(w)
  \/ BlankCopyOpen(w)
  \/ BlankCopyWrite(w)
  \/ BlankOpen(w)
  \/ GetAwait(w)

Janitor ==
  \/ JanitorWake
  \/ \E p \in LocalPaths : JanitorStat(p)
  \/ JanitorUnlink
  \/ JanitorSleep

Next ==
  \/ Environment
  \/ \E w \in Workers, m \in Methods, r \in TileRequests : Start(w, m, r)
  \/ \E w \in Workers : Handler(w)
  \/ Janitor

Spec == Init /\ [][Next]_vars

\* The same with the cleanup thread scheduled fairly: a daemon thread that can
\* take a step (it is sweeping, or its sleep is over) is not left waiting
\* forever.
SpecFair == Spec /\ WF_vars(Janitor)

\* The server as __main__ runs it, with time kept: the cleanup thread's sleep
\* (line 252) ends when its 3600 seconds are over, and a sweep is short
\* against the hour, so time passes only while the thread sleeps and never
\* past the moment it is due.
TickTimed ==
  /\ ticks < MaxHours
  /\ jpc = "sleep"
  /\ clock + SLEEP_SECONDS <= jwake
  /\ clock' = clock + SLEEP_SECONDS
  /\ ticks' = ticks + 1
  /\ UNCHANGED <<faults, tile, fs, dirs, pc, method, req, loc, ret, resp, calls,
                 janitorVars, served, prior, keyVars>>

NextTimed ==
  \/ TickTimed
  \/ \E w \in Workers, m \in Methods, r \in TileRequests : Start(w, m, r)
  \/ \E w \in Workers : Handler(w)
  \/ Janitor

SpecTimed == Init /\ [][NextTimed]_vars

\* Server workers that import the module (`uvicorn tile_server:app --workers n`
\* and the like): their handlers run in parallel over one cache directory, and
\* the cleanup thread, which only __main__ starts (lines 256-257), does not run.
NextWorkers ==
  \/ \E w \in Workers, m \in Methods, r \in TileRequests : StartWorker(w, m, r)
  \/ \E w \in Workers : Handler(w)

SpecWorkers == Init /\ [][NextWorkers]_vars

HandlerFault(w) ==
  \/ GetMkdirFault(w)
  \/ GetOpenHitFault(w)
  \/ GetFetchWriteFault(w)
  \/ GetOpenNewFault(w)
  \/ BlankFetchWriteFault(w)
  \/ BlankReadFault(w)
  \/ BlankCopyOpenFault(w)
  \/ BlankCopyWriteFault(w)
  \/ BlankOpenFault(w)

JanitorFault ==
  \/ \E p \in LocalPaths : JanitorStatFault(p)
  \/ JanitorUnlinkFault

\* The server as __main__ runs it, on a filesystem whose calls may fail.
NextIO ==
  \/ Next
  \/ \E w \in Workers : HandlerFault(w)
  \/ JanitorFault

SpecIO == Init /\ [][NextIO]_vars

\* ===================================================================== claims
\* The design document's own definitions, used to state the claims.
translateRow(zoom, row) == ((2 ^ zoom) - 1) - row

\* <layer>/<timestamp>/<zoom>/<x>/<row'>.png under the cache root
CachePathOf(r) ==
  CACHE_DIR \o "/" \o r.layer \o "/" \o r.timestamp \o "/" \o ToString(r.z) \o "/"
    \o ToString(r.x) \o "/" \o ToString(translateRow(r.z, r.y)) \o ".png"

\* <layer prefix>/<timestamp>/<zoom>/<x>/<row'>.png, the timestamp segment left
\* out for the static layer asked for with timestamp "static"
CanonicalKeyOf(r) ==
  LAYER_PATHS[r.layer] \o "/"
    \o (IF r.layer = "LightPollution_Tiles" /\ r.timestamp = "static"
        THEN "" ELSE r.timestamp \o "/")
    \o ToString(r.z) \o "/" \o ToString(r.x) \o "/"
    \o ToString(translateRow(r.z, r.y)) \o ".png"

RetentionSeconds == 12 * 60 * 60

FinishedGet(w) ==
  pc[w] = "done" /\ method[w] = "GET" /\ req[w].layer \in LayerNames

FinishedHead(w) ==
  pc[w] = "done" /\ method[w] = "HEAD" /\ req[w].layer \in LayerNames

\* The handler returned a 200 response (it did not raise).
Served(w) == resp[w].status = 200 /\ resp[w].raised = ""

\* C1: once a GET has been answered from a remote fetch, every later GET for
\* the same request returns the same bytes and makes no call to the object
\* store, as long as the cleanup thread has not deleted the entry.
C1_CachedTileServed ==
  \A w \in Workers :
    (FinishedGet(w) /\ prior[w] # NoBytes)
      => /\ Served(w)
         /\ resp[w].body = prior[w]
         /\ calls[w] = <<>>

\* C1's case: a GET that began with the entry on disk has finished, the entry
\* written before the clock last advanced.
C1_Witness ==
  \E w \in Workers :
    /\ FinishedGet(w) /\ prior[w] # NoBytes
    /\ fs[CachePathOf(req[w])].present
    /\ fs[CachePathOf(req[w])].mtime < clock

\* C2 (as claimed): when the tile's fetch fails and serve_blank_tile has the
\* placeholder, the GET returns the placeholder bytes as a 200 image response.
C2_PlaceholderReturned ==
  \A w \in Workers :
    (FinishedGet(w) /\ ret[w].status = 200)
      => /\ Served(w)
         /\ resp[w].body = BlankBytes

\* C3 (as claimed): a GET that saw the entry present ends with a tile or a
\* placeholder, never with an error, whatever the cleanup thread does in
\* between.
C3_JanitorRaceTolerated ==
  \A w \in Workers : (FinishedGet(w) /\ loc[w].hit) => Served(w)

\* C4 (as claimed): a GET never returns a partially written file.
C4_NoPartialRead ==
  \A w \in Workers : (FinishedGet(w) /\ Served(w)) => resp[w].body # Truncated

\* C5, the local half: a HEAD that looks into the cache while an entry is at
\* the request's CachePath answers 200 there and then, without a call to the
\* object store.
C5_LocalHit ==
  \A w \in Workers :
    (pc[w] = "h_exists" /\ pc'[w] # "h_exists" /\ fs[CachePathOf(req[w])].present)
      => /\ pc'[w] = "done"
         /\ resp'[w].status = 200 /\ resp'[w].raised = ""
         /\ calls'[w] = <<>>

\* C5, the remote half: a HEAD never raises; one that made no call answers
\* 200; otherwise it made one call, for the request's CanonicalKey, and
\* answers 200 exactly if the store said the object exists (a fault or "no"
\* gives 404).
C5_RemoteResult ==
  \A w \in Workers :
    FinishedHead(w)
      => /\ resp[w].raised = ""
         /\ calls[w] = <<>> => (resp[w].status = 200 /\ loc[w].hit)
         /\ calls[w] # <<>>
              => /\ Len(calls[w]) = 1
                 /\ calls[w][1].key = BUCKET \o "/" \o CanonicalKeyOf(req[w])
                 /\ resp[w].status = (IF calls[w][1].res > 0 THEN 200 ELSE 404)

\* C5: HEAD answers 200 whenever an entry is at the CachePath, with no call to
\* the object store; otherwise it answers what the store's exists says, a
\* fault counting as "not found".
C5_HeadExists == [][C5_LocalHit]_vars /\ []C5_RemoteResult

\* C5's case: a HEAD answered 200 from the cache alone.
C5_Witness ==
  \E w \in Workers :
    FinishedHead(w) /\ loc[w].hit /\ calls[w] = <<>> /\ resp[w].status = 200

\* C6: a request for a layer that is not registered is answered 404 ("Layer
\* not found") in the step that enters the handler: no call to the object
\* store, and the cache directory as it was.
C6_Rejected ==
  \A w \in Workers :
    (pc[w] = "idle" /\ pc'[w] # "idle" /\ req'[w].layer \notin LayerNames)
      => /\ pc'[w] = "done"
         /\ resp'[w] = Response(404, "Layer not found")
         /\ calls'[w] = <<>>
         /\ fs' = fs
         /\ dirs' = dirs

C6_UnknownLayer == [][C6_Rejected]_vars

\* C6's case: a GET for an unknown layer has been answered.
C6_Witness ==
  \E w \in Workers :
    /\ pc[w] = "done" /\ method[w] = "GET" /\ req[w].layer = "unknown_layer"
    /\ resp[w].status = 404

\* C7, the test: when the sweep examines an entry, it marks the entry for
\* deletion exactly if the entry's age (the sweep's `now` minus the last
\* write) exceeds the retention period; an entry not older than that is left
\* as it is.
C7_AgeTest ==
  \A p \in LocalPaths :
    (p \in jlist /\ p \notin jlist')
      => IF fs[p].present /\ jnow - fs[p].mtime > RetentionSeconds
         THEN jcur' = p /\ fs' = fs
         ELSE jcur' = "" /\ fs' = fs

\* C7, the deletion: the cleanup thread's step after marking an entry deletes
\* that entry, and the thread changes no file in any other way.
C7_Deletes ==
  /\ (jcur # "" /\ janitorVars' # janitorVars)
       => fs' = [fs EXCEPT ![jcur] = NoFile] /\ jcur' = ""
  /\ (jcur = "" /\ janitorVars' # janitorVars) => fs' = fs

\* C7: a sweep deletes every entry it finds older than the retention period
\* (12 hours) and leaves the entries it finds younger untouched.
C7_Sweep == [][C7_AgeTest /\ C7_Deletes]_vars

\* C7's case: in one sweep, an entry written 13 hours before is about to be
\* unlinked and an entry written 1 hour before has been visited and kept.
C7_Witness ==
  /\ jpc = "scan" /\ jcur # ""
  /\ fs[jcur].present /\ jnow - fs[jcur].mtime = 13 * 60 * 60
  /\ \E p \in LocalPaths \ jlist :
       p # jcur /\ fs[p].present /\ jnow - fs[p].mtime = 1 * 60 * 60

\* C8 (as claimed): a GET for a registered layer is not ended by an exception
\* from the local filesystem: it returns a response, or it has at least come
\* to serve_blank_tile's result (where C2's failure ends it).
C8_NoLocalFaultEscapes ==
  \A w \in Workers :
    FinishedGet(w) => (resp[w].raised = "" \/ ret[w] # NoResponse)

\* C9, nothing persisted: a GET whose fetch failed and for which
\* serve_blank_tile could not get the placeholder ends as a 500, with no file
\* at the tile's CachePath and none at the placeholder's path.
C9_NothingPersisted ==
  \A w \in Workers :
    (FinishedGet(w) /\ ret[w].status = 500)
      => /\ resp[w].status = 500
         /\ ~fs[CachePathOf(req[w])].present
         /\ ~fs[blank_tile_path].present

\* C9, the next request: a GET that looks into the cache and finds no entry
\* goes to the object store.
C9_MissGoesRemote ==
  \A w \in Workers :
    (pc[w] = "g_exists" /\ pc'[w] # "g_exists" /\ ~fs[CachePathOf(req[w])].present)
      => pc'[w] = "g_fetch"

C10_Keys ==
  /\ \A d \in {kout.head, kout.get} :
       d # NoKeys => (d.key = CanonicalKeyOf(kin) /\ d.path = CachePathOf(kin))
  /\ (kout.head # NoKeys /\ kout.get # NoKeys) => kout.head = kout.get
  /\ ( /\ kin = [layer |-> "SkyCover_Tiles", timestamp |-> "2025062818",
                 z |-> 3, x |-> 2, y |-> 5]
       /\ kout.get # NoKeys )
       => /\ kout.get.key = "data-layer-tiles/SkyCover_Tiles/2025062818/3/2/2.png"
          /\ kout.get.path = "tile_cache/SkyCover_Tiles/2025062818/3/2/2.png"

\* C10's case: both handlers have derived the key of a static-layer request,
\* which has no timestamp segment.
C10_Witness ==
  /\ kin = [layer |-> "LightPollution_Tiles", timestamp |-> "static",
            z |-> 3, x |-> 2, y |-> 5]
  /\ kout.head # NoKeys /\ kout.get # NoKeys
  /\ kout.get.key = "light-pollution-data/zenith_ConUSA_colored_tiles/3/2/2.png"

\* C11's terms: the rows of a zoom level.
InRange(zoom, row) == 0 <= row /\ row < 2 ^ zoom

\* C11: the row flip is translateRow, (2^zoom - 1) - row; it takes every row
\* of a zoom level to a row of that level, and flipping the result gives the
\* row back.
C11_Involution ==
  InRange(rin.z, rin.y)
    => /\ Len(rout) >= 1
            => /\ rout[1] = translateRow(rin.z, rin.y)
               /\ InRange(rin.z, rout[1])
       /\ Len(rout) = 2 => rout[2] = rin.y

\* C11's case: row 5 of zoom 3 flipped to 2 and back to 5.
C11_Witness ==
  rin = [z |-> 3, y |-> 5] /\ rout = <<2, 5>>

\* C12's terms: a file with all its bytes in it.
Complete(f) == f.present /\ f.data # Truncated

\* C12 (as claimed): the step of a handler never changes the content of a
\* complete file in the cache; a file there keeps its bytes until the cleanup
\* thread deletes it.
C12_Unchanged ==
  \A p \in LocalPaths :
    (Complete(fs[p]) /\ janitorVars' = janitorVars) => fs'[p] = fs[p]

C12_NeverMutated == [][C12_Unchanged]_vars

\* C13's terms: the sweep has gone through its listing; the entries that are
\* older than the retention period at the sweep's `now`.
SweepDone == jpc = "scan" /\ jlist = {} /\ jcur = ""

ExpiredEntries ==
  {p \in LocalPaths : fs[p].present /\ jnow - fs[p].mtime > RetentionSeconds}

\* C13, the sweep: a stat() or unlink() that fails costs the sweep that one
\* entry only: when the sweep has gone through its listing, no more expired
\* entries are left than calls have failed.
C13_OthersDeleted ==
  SweepDone => Cardinality(ExpiredEntries) <= faults

\* C13, the loop: the cleanup thread is sleeping or sweeping, whatever has
\* failed; while sweeping it always has a next step, and once its sleep is
\* over it starts the next sweep.
C13_LoopGoesOn ==
  /\ jpc \in {"sleep", "scan"}
  /\ jpc = "scan" => ENABLED (Janitor \/ JanitorFault)
  /\ (jpc = "sleep" /\ clock >= jwake) => ENABLED JanitorWake

\* C13: a failing stat() or unlink() is skipped; the sweep deletes the other
\* expired entries, and the loop goes on.
C13_FaultSkipped == C13_OthersDeleted /\ C13_LoopGoesOn

\* C13's case: a sweep has ended in which a call failed on an expired entry,
\* which is still there, while the entry of the tile is gone; and the thread
\* has gone to sleep until the next sweep.
C13_Witness ==
  /\ jpc = "sleep" /\ jwake = jnow + SLEEP_SECONDS
  /\ faults = 1
  /\ ExpiredEntries = {blank_tile_path}
  /\ \E r \in ValidRequests :
       GetParent(r) \in dirs /\ ~fs[GetLocalPath(r)].present
  /\ \A w \in Workers : pc[w] = "idle"

\* C14's terms: an entry older than the retention period now; a sweep is due.
ExpiredNow(p) == fs[p].present /\ clock - fs[p].mtime > RetentionSeconds

SweepDue == jpc = "sleep" /\ clock >= jwake

\* C14: with the cleanup thread scheduled fairly, an entry that is older than
\* the retention period when a sweep is due does not stay: it is deleted (or
\* it has been rewritten, and is no longer old).
C14_Evicted ==
  \A p \in LocalPaths : (ExpiredNow(p) /\ SweepDue) ~> ~ExpiredNow(p)

\* C14's case: an entry fetched and served by this run has been picked for
\* deletion by a sweep more than 12 hours later.
C14_Witness ==
  /\ jpc = "scan" /\ jcur # ""
  /\ served[jcur] # NoBytes
  /\ Complete(fs[jcur]) /\ jnow - fs[jcur].mtime > RetentionSeconds

\* C15's terms: the sweep interval; the placeholder sits at a tile's
\* CachePath; the age of the file at a path.
SweepInterval == 60 * 60

Poisoned(p) == p # blank_tile_path /\ fs[p].present /\ fs[p].data = BlankBytes

Age(p) == clock - fs[p].mtime

\* A GET is answered with the placeholder from the entry at its CachePath,
\* without a call to the object store.
ServesPoison(w) ==
  /\ pc[w] = "g_open_hit" /\ pc'[w] = "done"
  /\ Poisoned(loc[w].local_path)
  /\ resp'[w] = StreamingResponse(BlankBytes)
  /\ calls'[w] = <<>>

C15_AgeBound ==
  \A p \in LocalPaths : Poisoned(p) => Age(p) <= RetentionSeconds + SweepInterval

\* C15 (amended), the requests: a GET that finds the placeholder entry answers
\* with it and makes no call to the object store, whatever the store would
\* say; a GET that finds no entry asks the object store.
C15_HitOrRemote ==
  \A w \in Workers :
    /\ (pc[w] = "g_open_hit" /\ pc'[w] = "done" /\ Poisoned(loc[w].local_path))
         => ServesPoison(w)
    /\ (pc[w] = "g_exists" /\ pc'[w] # "g_exists" /\ ~fs[loc[w].local_path].present)
         => pc'[w] = "g_fetch"

FetchedBlank(w) ==
  Len(calls[w]) = 2 /\ calls[w][2].key = s3key(blank_tile_key) /\ calls[w][2].res > 0

\* C16 (as claimed): whatever the interleaving of the handlers, a
\* serve_blank_tile that found the placeholder absent and fetched it returns
\* the complete placeholder, and once no handler is writing the placeholder
\* file, the file is complete.  (What becomes of the returned response on
\* line 169 is C2's matter.)
C16_ConcurrentFirstUse ==
  /\ \A w \in Workers :
       (pc[w] = "g_await" /\ ret[w].status = 200 /\ FetchedBlank(w))
         => ret[w].body = BlankBytes
  /\ (\A w \in Workers : pc[w] # "b_fetch_write")
       => (fs[blank_tile_path].present => fs[blank_tile_path].data = BlankBytes)

\* C17 (as claimed): the placeholder file, once it is in the cache, stays
\* there: no step deletes it.
C17_Kept == fs[blank_tile_path].present => fs'[blank_tile_path].present

C17_PlaceholderKept == [][C17_Kept]_vars

\* C18's terms: the step is a step of a HEAD handler in frame w.
HeadStep(w) ==
  pc'[w] # pc[w] /\ (method[w] = "HEAD" \/ method'[w] = "HEAD")

\* C18: no step of a HEAD handler, for a registered layer or not, changes a
\* file or a directory of the cache.
C18_Frame ==
  \A w \in Workers : HeadStep(w) => (fs' = fs /\ dirs' = dirs)

C18_HeadReadOnly == [][C18_Frame]_vars

\* C18's case: a HEAD has been answered 200 by the object store, the tile not
\* being in the cache.
C18_Witness ==
  \E w \in Workers :
    /\ FinishedHead(w) /\ ~loc[w].hit
    /\ Len(calls[w]) = 1 /\ calls[w][1].res > 0 /\ resp[w].status = 200
    /\ ~fs[CachePathOf(req[w])].present
    /\ ~fs[blank_tile_path].present

====
